---- MODULE Spec2Model ----
(***************************************************************************)
(* Model of src/src/App.tsx: the chat client component App.                *)
(*                                                                         *)
(* State of the component: the transcript (messages), the pending input    *)
(* text (input), the awaiting flag (isLoading) and the session handle      *)
(* (chatInstance, a reference to a chat object created by                  *)
(* ai.chats.create).  Chat objects live on a heap (handles) because an     *)
(* await of sendMessage keeps the handle it was issued on alive after      *)
(* clearChat replaced chatInstance.current; a chat object that nothing     *)
(* refers to any more is garbage.                                          *)
(*                                                                         *)
(* The handle is created by the effect of line 39, which React runs after  *)
(* the first render: either when its scheduler gets to it (Mount) or, at   *)
(* the latest, before the next render, which the first state update causes *)
(* (Render).                                                               *)
(*                                                                         *)
(* All handlers run to completion on the event loop; the only suspension   *)
(* point is the await at line 71, so handleSend is two steps: the part up  *)
(* to the await (HandleSend) and the continuation after the promise        *)
(* settles (Resolve / Reject).                                             *)
(***************************************************************************)
EXTENDS Integers, Sequences, FiniteSets

VARIABLES
    messages,      \* useState<Message[]>          (line 32)
    input,         \* useState('')                 (line 33)
    isLoading,     \* useState(false)              (line 34)
    chatInstance,  \* useRef<any>(null).current    (line 36): index into handles, or Null
    handles,       \* heap: the chat object in each slot, or Free
    inflight,      \* suspended handleSend invocations (awaiting sendMessage)
    calls,         \* number of sendMessage calls issued so far
    now,           \* the value Date.now() returned last
    event,         \* history variable: the handler that ran last
    prov,          \* history variable: for each Message, the handle of its turn and how it arose
    accepted,      \* history variable: number of submits that passed the guard
    response,      \* history variable: what the call settled in the last step returned
    effectPending, \* the effect of line 39 is scheduled and has not run yet
    chosen,        \* history variable: the suggestion button clicked in the last step
    clearStreak    \* history variable: clearChat runs in immediate succession (2 = two or more)

vars == <<messages, input, isLoading, chatInstance, handles, inflight, calls,
          now, event, prov, accepted, response, effectPending, chosen, clearStreak>>

----------------------------------------------------------------------------
(* Bounds *)

MaxCalls == 2      \* accepted submits in one behaviour
HeapSize == 3      \* chat objects that can be alive at once
MaxClock == 1      \* largest clock reading

----------------------------------------------------------------------------
(* Texts are sequences of characters, so that trim() can be computed. *)

Null == 0

\* what the user may type into the input box (onChange, line 216)
TypedTexts == { <<>>, <<" ">>, <<" ", "a">> }

\* the three canned prompts (line 142), by stand-in characters
Suggestions == { <<"s1">>, <<"s2">>, <<"s3">> }

\* response.text of a resolved call: missing, empty, or some text
Undefined == <<"undefined">>
ReplyTexts == { Undefined, <<>>, <<"r">> }

\* the two literal fallback strings of handleSend
FallbackEmpty == <<"sorry: an error occurred">>
FallbackReject == <<"sorry: could not connect to server">>

IsSpace(c) == c = " "

RECURSIVE TrimStart(_)
TrimStart(s) ==
    IF s = <<>> THEN <<>>
    ELSE IF IsSpace(Head(s)) THEN TrimStart(Tail(s))
    ELSE s

RECURSIVE TrimEnd(_)
TrimEnd(s) ==
    IF s = <<>> THEN <<>>
    ELSE IF IsSpace(s[Len(s)]) THEN TrimEnd(SubSeq(s, 1, Len(s) - 1))
    ELSE s

\* String.prototype.trim
Trim(s) == TrimEnd(TrimStart(s))

\* JavaScript truthiness of a string-or-undefined value
Truthy(s) == s \notin { Undefined, <<>> }

Digit(d) == CASE d = 0 -> "0" [] d = 1 -> "1" [] d = 2 -> "2" [] d = 3 -> "3"
              [] d = 4 -> "4" [] d = 5 -> "5" [] d = 6 -> "6" [] d = 7 -> "7"
              [] d = 8 -> "8" [] d = 9 -> "9"

\* Number.prototype.toString for a non-negative integer
RECURSIVE ToString(_)
ToString(n) ==
    IF n < 10 THEN <<Digit(n)>>
    ELSE Append(ToString(n \div 10), Digit(n % 10))

----------------------------------------------------------------------------
(* The session handle *)

\* ai.chats.create({model, config: {systemInstruction}}): a new chat object
ChatsCreate ==
    [ model |-> "gemini-3-flash-preview",
      systemInstruction |-> "SYSTEM_INSTRUCTION",
      history |-> <<>> ]

\* the heap of chat objects; chatInstance.current and the pending calls hold
\* slot numbers
Slots == 1..HeapSize
Free == [ model |-> "", systemInstruction |-> "", history |-> <<>> ]

\* the slot a newly created object gets: the first free one
SlotIn(heap) == CHOOSE h \in Slots : heap[h] = Free /\ \A g \in 1..(h - 1) : heap[g] # Free
NewSlot == SlotIn(handles)

\* a chat object that neither chatInstance.current nor a pending call refers
\* to is unreachable and is reclaimed
Reclaim(heap, current, pending) ==
    [ h \in DOMAIN heap |->
        IF h = current \/ \E c \in pending : c.handle = h
        THEN heap[h] ELSE Free ]

----------------------------------------------------------------------------
Init ==
    /\ messages = <<>>
    /\ input = <<>>
    /\ isLoading = FALSE
    /\ chatInstance = Null
    /\ handles = [ h \in Slots |-> Free ]
    /\ inflight = {}
    /\ calls = 0
    /\ now = 0
    /\ event = "init"
    /\ prov = <<>>
    /\ accepted = 0
    /\ response = "none"
    /\ effectPending = TRUE
    /\ chosen = <<>>
    /\ clearStreak = 0

Mounted == ~effectPending

\* the body of the effect (lines 40-46), run on a given reference and heap
\* while the calls in pending are outstanding: the reference is assigned a
\* newly created chat object
InitChatSkipped(ref, heap, pending) == [ current |-> ref, heap |-> heap ]
InitChat(ref, heap, pending) ==
    LET h == SlotIn(heap)
    IN  [ current |-> h,
          heap |-> Reclaim([ heap EXCEPT ![h] = ChatsCreate ], h, pending) ]

\* a state update makes React render again, and React runs an effect that
\* is still pending before it renders
Render(ref, heap, pending) ==
    IF effectPending THEN InitChat(ref, heap, pending)
    ELSE [ current |-> ref, heap |-> heap ]

\* useEffect(() => {...}, []): runs once, after the first render, when the
\* scheduler gets to it before any state update
Mount ==
    /\ ~Mounted
    /\ handles' = InitChat(chatInstance, handles, inflight).heap
    /\ chatInstance' = InitChat(chatInstance, handles, inflight).current
    /\ effectPending' = FALSE
    /\ event' = "mount"
    /\ response' = "none"
    /\ chosen' = <<>>
    /\ clearStreak' = 0
    /\ UNCHANGED <<messages, input, isLoading, inflight, calls, now, prov, accepted>>

\* onChange={(e) => setInput(e.target.value)}   (line 216)
SetInput(t) ==
    /\ input' = t
    /\ IF t # input
       THEN /\ handles' = Render(chatInstance, handles, inflight).heap
            /\ chatInstance' = Render(chatInstance, handles, inflight).current
            /\ effectPending' = FALSE
       ELSE UNCHANGED <<handles, chatInstance, effectPending>>
    /\ event' = "type"
    /\ response' = "none"
    /\ chosen' = <<>>
    /\ clearStreak' = 0
    /\ UNCHANGED <<messages, isLoading, inflight, calls, now, prov, accepted>>

\* onClick={() => setInput(suggestion)}   (line 145); the suggestion buttons
\* are rendered only while the transcript is empty (line 130)
SelectSuggestionShifted(s) ==
    /\ Len(messages) = 0
    /\ input' = CHOOSE o \in Suggestions : o # s
    /\ handles' = Render(chatInstance, handles, inflight).heap
    /\ chatInstance' = Render(chatInstance, handles, inflight).current
    /\ effectPending' = FALSE
    /\ event' = "suggest"
    /\ response' = "none"
    /\ chosen' = s
    /\ clearStreak' = 0
    /\ UNCHANGED <<messages, isLoading, inflight, calls, now, prov, accepted>>

SelectSuggestion(s) ==
    /\ Len(messages) = 0
    /\ input' = s
    /\ IF s # input
       THEN /\ handles' = Render(chatInstance, handles, inflight).heap
            /\ chatInstance' = Render(chatInstance, handles, inflight).current
            /\ effectPending' = FALSE
       ELSE UNCHANGED <<handles, chatInstance, effectPending>>
    /\ event' = "suggest"
    /\ response' = "none"
    /\ chosen' = s
    /\ clearStreak' = 0
    /\ UNCHANGED <<messages, isLoading, inflight, calls, now, prov, accepted>>

\* Date.now(): the clock never runs backwards
ClockReadings == now..MaxClock

\* handleSend goes on past line 58: if (!input.trim() || isLoading) return;
SendGuardNoTrim == input # <<>> /\ ~isLoading
SendGuardNoLoading == Trim(input) # <<>>
SendGuard == Trim(input) # <<>> /\ ~isLoading

\* const userMessage = { role: 'user', content: input, id: Date.now().toString() }
UserMessageTrimmed(t) == [ role |-> "user", content |-> Trim(input), id |-> ToString(t) ]
UserMessage(t) == [ role |-> "user", content |-> input, id |-> ToString(t) ]

\* the argument of sendMessage: { message: input }
SentText == input

\* const modelMessage = { role: 'model', content: response.text || "...", id: (Date.now() + 1).toString() }
ModelMessageSameApology(text, t) ==
    [ role |-> "model",
      content |-> IF Truthy(text) THEN text ELSE FallbackReject,
      id |-> ToString(t + 1) ]

ModelMessage(text, t) ==
    [ role |-> "model",
      content |-> IF Truthy(text) THEN text ELSE FallbackEmpty,
      id |-> ToString(t + 1) ]

\* const errorMessage = { role: 'model', content: "...", id: (Date.now() + 1).toString() }
ErrorMessageRaw(t) == [ role |-> "model", content |-> <<"TypeError">>, id |-> ToString(t + 1) ]
ErrorMessage(t) == [ role |-> "model", content |-> FallbackReject, id |-> ToString(t + 1) ]

\* handleSend up to the await (lines 57-71).  When the guard of line 58
\* returns, no state of the component changes.  sendMessage on a null handle
\* throws at once, so the catch and finally blocks run in the same step.
HandleSend(entry) ==
    /\ event' = entry
    /\ response' = "none"
    /\ chosen' = <<>>
    /\ clearStreak' = 0
    /\ IF ~SendGuard
       THEN UNCHANGED <<messages, input, isLoading, chatInstance, handles,
                        inflight, calls, now, prov, accepted, effectPending>>
       ELSE /\ accepted < MaxCalls
            /\ accepted' = accepted + 1
            /\ now' \in ClockReadings
            /\ input' = <<>>
            /\ calls' = calls + 1
            /\ IF chatInstance = Null
               THEN /\ messages' = messages \o <<UserMessage(now'), ErrorMessage(now')>>
                    /\ prov' = prov \o << [ handle |-> Null, kind |-> "user" ],
                                          [ handle |-> Null, kind |-> "reject" ] >>
                    /\ isLoading' = FALSE
                    /\ inflight' = inflight
               ELSE /\ messages' = Append(messages, UserMessage(now'))
                    /\ prov' = Append(prov, [ handle |-> chatInstance, kind |-> "user" ])
                    /\ isLoading' = TRUE
                    /\ inflight' = inflight \cup
                          { [ call |-> calls + 1,
                              handle |-> chatInstance,
                              message |-> SentText,
                              lenBefore |-> Len(messages) ] }
            /\ handles' = Render(chatInstance, handles, inflight').heap
            /\ chatInstance' = Render(chatInstance, handles, inflight').current
            /\ effectPending' = FALSE

\* onKeyDown={(e) => e.key === 'Enter' && handleSend()}   (line 217)
KeyEnter == HandleSend("enter")

\* the send button (lines 221-223): a disabled button dispatches no click
ClickSend ==
    IF ~(Trim(input) # <<>>) \/ isLoading
    THEN /\ event' = "click"
         /\ response' = "none"
         /\ chosen' = <<>>
         /\ clearStreak' = 0
         /\ UNCHANGED <<messages, input, isLoading, chatInstance, handles,
                        inflight, calls, now, prov, accepted, effectPending>>
    ELSE HandleSend("click")

\* the chat object keeps the turns it answered: a call that resolves adds
\* the text it was sent to the object's history, a call that rejects adds
\* nothing
RecordTurn(h, c) ==
    [ handles EXCEPT ![h].history = Append(@, c.message) ]

\* the continuation of handleSend after sendMessage resolved (lines 72-77, 87)
ResolveStaleClosure(c, text) ==
    /\ c \in inflight
    /\ inflight' = inflight \ {c}
    /\ handles' = Reclaim(RecordTurn(c.handle, c), chatInstance, inflight')
    /\ now' \in ClockReadings
    /\ LET kept == IF c.lenBefore <= Len(messages) THEN c.lenBefore ELSE Len(messages)
       IN  /\ messages' = Append(SubSeq(messages, 1, kept), ModelMessage(text, now'))
           /\ prov' = Append(SubSeq(prov, 1, kept),
                             [ handle |-> c.handle,
                               kind |-> IF Truthy(text) THEN "reply" ELSE "empty" ])
    /\ isLoading' = FALSE
    /\ event' = "resolve"
    /\ response' = text
    /\ chosen' = <<>>
    /\ clearStreak' = 0
    /\ UNCHANGED <<input, chatInstance, calls, accepted, effectPending>>

Resolve(c, text) ==
    /\ c \in inflight
    /\ inflight' = inflight \ {c}
    /\ handles' = Reclaim(RecordTurn(c.handle, c), chatInstance, inflight')
    /\ now' \in ClockReadings
    /\ messages' = Append(messages, ModelMessage(text, now'))
    /\ prov' = Append(prov, [ handle |-> c.handle,
                              kind |-> IF Truthy(text) THEN "reply" ELSE "empty" ])
    /\ isLoading' = FALSE
    /\ event' = "resolve"
    /\ response' = text
    /\ chosen' = <<>>
    /\ clearStreak' = 0
    /\ UNCHANGED <<input, chatInstance, calls, accepted, effectPending>>

\* the continuation of handleSend after sendMessage rejected (lines 78-87)
RejectNoFinally(c) ==
    /\ c \in inflight
    /\ inflight' = inflight \ {c}
    /\ now' \in ClockReadings
    /\ messages' = Append(messages, ErrorMessage(now'))
    /\ prov' = Append(prov, [ handle |-> c.handle, kind |-> "reject" ])
    /\ handles' = Reclaim(handles, chatInstance, inflight')
    /\ event' = "reject"
    /\ response' = "rejected"
    /\ chosen' = <<>>
    /\ clearStreak' = 0
    /\ UNCHANGED <<input, isLoading, chatInstance, calls, accepted, effectPending>>

RejectRetry(c) ==
    /\ c \in inflight
    /\ calls < MaxCalls + 1
    /\ inflight' = (inflight \ {c}) \cup { [ c EXCEPT !.call = calls + 1 ] }
    /\ calls' = calls + 1
    /\ event' = "reject"
    /\ response' = "rejected"
    /\ chosen' = <<>>
    /\ clearStreak' = 0
    /\ UNCHANGED <<messages, prov, input, isLoading, chatInstance, handles, now, accepted,
                   effectPending>>

Reject(c) ==
    /\ c \in inflight
    /\ inflight' = inflight \ {c}
    /\ now' \in ClockReadings
    /\ messages' = Append(messages, ErrorMessage(now'))
    /\ prov' = Append(prov, [ handle |-> c.handle, kind |-> "reject" ])
    /\ isLoading' = FALSE
    /\ handles' = Reclaim(handles, chatInstance, inflight')
    /\ event' = "reject"
    /\ response' = "rejected"
    /\ chosen' = <<>>
    /\ clearStreak' = 0
    /\ UNCHANGED <<input, chatInstance, calls, accepted, effectPending>>

\* clearChat (lines 91-101); setMessages([]) is a state update, so the
\* component renders again
Streak == IF clearStreak = 0 THEN 1 ELSE 2

ClearChatKeepsHandle ==
    /\ messages' = <<>>
    /\ prov' = <<>>
    /\ handles' = Render(chatInstance, handles, inflight).heap
    /\ chatInstance' = Render(chatInstance, handles, inflight).current
    /\ effectPending' = FALSE
    /\ event' = "clear"
    /\ response' = "none"
    /\ chosen' = <<>>
    /\ clearStreak' = Streak
    /\ UNCHANGED <<input, isLoading, inflight, calls, now, accepted>>

ClearChatResetsLoading ==
    /\ \E h \in Slots : handles[h] = Free
    /\ messages' = <<>>
    /\ prov' = <<>>
    /\ LET cleared == Reclaim([ handles EXCEPT ![NewSlot] = ChatsCreate ], NewSlot, inflight)
       IN  /\ handles' = Render(NewSlot, cleared, inflight).heap
           /\ chatInstance' = Render(NewSlot, cleared, inflight).current
    /\ effectPending' = FALSE
    /\ isLoading' = FALSE
    /\ event' = "clear"
    /\ response' = "none"
    /\ chosen' = <<>>
    /\ clearStreak' = Streak
    /\ UNCHANGED <<input, inflight, calls, now, accepted>>

ClearChatDropsFirst ==
    /\ \E h \in Slots : handles[h] = Free
    /\ messages' = IF messages = <<>> THEN <<>> ELSE Tail(messages)
    /\ prov' = IF prov = <<>> THEN <<>> ELSE Tail(prov)
    /\ LET cleared == Reclaim([ handles EXCEPT ![NewSlot] = ChatsCreate ], NewSlot, inflight)
       IN  /\ handles' = Render(NewSlot, cleared, inflight).heap
           /\ chatInstance' = Render(NewSlot, cleared, inflight).current
    /\ effectPending' = FALSE
    /\ event' = "clear"
    /\ response' = "none"
    /\ chosen' = <<>>
    /\ clearStreak' = Streak
    /\ UNCHANGED <<input, isLoading, inflight, calls, now, accepted>>

ClearChat ==
    /\ \E h \in Slots : handles[h] = Free
    /\ messages' = <<>>
    /\ prov' = <<>>
    /\ LET cleared == Reclaim([ handles EXCEPT ![NewSlot] = ChatsCreate ], NewSlot, inflight)
       IN  /\ handles' = Render(NewSlot, cleared, inflight).heap
           /\ chatInstance' = Render(NewSlot, cleared, inflight).current
    /\ effectPending' = FALSE
    /\ event' = "clear"
    /\ response' = "none"
    /\ chosen' = <<>>
    /\ clearStreak' = Streak
    /\ UNCHANGED <<input, isLoading, inflight, calls, now, accepted>>

Complete ==
    \E c \in inflight :
        \/ \E text \in ReplyTexts : Resolve(c, text)
        \/ Reject(c)

Next ==
    \/ Mount
    \/ \E t \in TypedTexts : SetInput(t)
    \/ \E s \in Suggestions : SelectSuggestion(s)
    \/ KeyEnter
    \/ ClickSend
    \/ \E c \in inflight : \E text \in ReplyTexts : Resolve(c, text)
    \/ \E c \in inflight : Reject(c)
    \/ ClearChat

Spec == Init /\ [][Next]_vars

\* the transport settles every call (section 5: "it resolves or rejects
\* whenever the transport layer decides")
LiveSpec == Spec /\ WF_vars(Complete)

TypeOK ==
    /\ isLoading \in BOOLEAN
    /\ chatInstance \in Slots \cup {Null}
    /\ Len(prov) = Len(messages)
    /\ effectPending \in BOOLEAN
    /\ clearStreak \in 0..2
    /\ \A i \in 1..Len(messages) : messages[i].role \in {"user", "model"}

----------------------------------------------------------------------------
(* Properties *)

ComponentState == <<messages, input, isLoading, chatInstance, handles, inflight, calls>>

SubmitStep == event' \in {"enter", "click"}

Last(s) == s[Len(s)]

\* C1: every accepted submit leaves the transcript, at the completion of its
\* call, exactly 2 longer than it was just before the submit, whatever
\* happens during the flight (clear included).
C1_TranscriptGrowsByTwo ==
    [][ \A c \in inflight :
            c \notin inflight' => Len(messages') = c.lenBefore + 2 ]_vars

\* C2: a submit attempted (Enter key or send button) while a reply is awaited,
\* or while the input is empty or whitespace-only, changes nothing: transcript,
\* input, awaiting flag, handle, and the calls issued all stay as they were.
C2_RejectedSubmitIsNoOp ==
    [][ (SubmitStep /\ (isLoading \/ Trim(input) = <<>>))
            => UNCHANGED ComponentState ]_vars

C2_Witness ==
    /\ event \in {"enter", "click"}
    /\ ~isLoading
    /\ input # <<>>
    /\ Trim(input) = <<>>
    /\ calls = 0

\* C3: at most one sendMessage call is outstanding in any reachable state.
C3_AtMostOneCallInFlight == Cardinality(inflight) <= 1

C3_Witness ==
    /\ event = "enter"
    /\ Trim(input) # <<>>
    /\ \E c \in inflight : c.handle # chatInstance

\* C4: every Message of the transcript belongs to a turn that was sent on the
\* handle that is current now.
C4_TranscriptInLockstep ==
    \A i \in 1..Len(messages) : prov[i].handle = chatInstance

\* C5: clear() leaves the transcript empty and the handle replaced by a newly
\* created one, with empty history and the configuration the first handle
\* was created with (lines 42-44).
C5_ClearYieldsFreshSession ==
    [][ event' = "clear" =>
            /\ messages' = <<>>
            /\ chatInstance' \in Slots
            /\ chatInstance' # chatInstance
            /\ handles[chatInstance'] = Free
            /\ handles'[chatInstance'].history = <<>>
            /\ handles'[chatInstance'].model = "gemini-3-flash-preview"
            /\ handles'[chatInstance'].systemInstruction = "SYSTEM_INSTRUCTION"
            /\ \A c \in inflight : handles'[c.handle] = handles[c.handle] ]_vars

C5_Witness ==
    /\ event = "clear"
    /\ isLoading
    /\ inflight # {}
    /\ messages = <<>>
    /\ chatInstance = 2
    /\ calls = 1

\* C6: when the call rejects, the error is swallowed: a model Message with the
\* rejection fallback string is appended to the transcript as it stands (the
\* user Message is not rolled back) and the awaiting flag returns to false.
C6_RejectAppendsFallback ==
    [][ event' = "reject" =>
            /\ Len(messages') = Len(messages) + 1
            /\ SubSeq(messages', 1, Len(messages)) = messages
            /\ Last(messages').role = "model"
            /\ Last(messages').content = FallbackReject
            /\ isLoading' = FALSE ]_vars

C6_Witness ==
    /\ event = "reject"
    /\ Len(messages) = 2
    /\ messages[1].role = "user"
    /\ messages[2].role = "model"
    /\ messages[2].content = FallbackReject
    /\ ~isLoading

\* C7: whenever a reply is awaited, the view eventually returns to idle,
\* provided the transport settles the call.
C7_EventuallyIdle == isLoading ~> ~isLoading

C7_Witness ==
    /\ event \in {"resolve", "reject"}
    /\ ~isLoading
    /\ inflight = {}
    /\ Len(messages) = 1
    /\ chatInstance = 2

\* C8: an accepted submit appends a user Message whose content is the input
\* exactly as typed, sets the awaiting flag and sends exactly that text on the
\* current handle; a resolution with a non-empty reply text appends a model
\* Message with exactly that text and clears the awaiting flag.
C8_ExactTextRoundTrip ==
    [][ /\ (SubmitStep /\ ~isLoading /\ Trim(input) # <<>>) =>
              /\ Len(messages') = Len(messages) + 1
              /\ SubSeq(messages', 1, Len(messages)) = messages
              /\ Last(messages').role = "user"
              /\ Last(messages').content = input
              /\ isLoading' = TRUE
              /\ calls' = calls + 1
              /\ \E c \in inflight' :
                    /\ inflight' = inflight \cup {c}
                    /\ c.call = calls'
                    /\ c.handle = chatInstance
                    /\ c.message = input
        /\ \A c \in inflight :
              (event' = "resolve" /\ c \notin inflight' /\ Truthy(response')) =>
              /\ Len(messages') = Len(messages) + 1
              /\ SubSeq(messages', 1, Len(messages)) = messages
              /\ Last(messages').role = "model"
              /\ Last(messages').content = response'
              /\ isLoading' = FALSE ]_vars

C8_Witness ==
    /\ Len(messages) = 2
    /\ messages[1].role = "user"
    /\ messages[1].content = <<" ", "a">>
    /\ handles[1].history = << <<" ", "a">> >>
    /\ messages[2].role = "model"
    /\ messages[2].content = <<"r">>
    /\ ~isLoading

IsFailure(i) == prov[i].kind \in {"empty", "reject"}

\* C9 (as stated): a rejected call and a call resolving with an empty or
\* missing text produce the same single apology string.
C9_SingleApologyString ==
    \A i, j \in 1..Len(messages) :
        (IsFailure(i) /\ IsFailure(j)) => messages[i].content = messages[j].content

\* C9 (amended): both failures produce a model Message with a fixed apology,
\* the rejection one string and the empty or missing reply another.
C9_TwoApologyStrings ==
    \A i \in 1..Len(messages) :
        /\ prov[i].kind = "reject" =>
              messages[i].role = "model" /\ messages[i].content = FallbackReject
        /\ prov[i].kind = "empty" =>
              messages[i].role = "model" /\ messages[i].content = FallbackEmpty
        /\ prov[i].kind = "reply" =>
              messages[i].content \notin {FallbackReject, FallbackEmpty}

C9_Witness ==
    /\ \E i \in 1..Len(messages) : prov[i].kind = "reject"
    /\ \E i \in 1..Len(messages) : prov[i].kind = "empty"
    /\ ~isLoading

\* C10: the number of sendMessage calls issued equals the number of accepted
\* submits, and the completion of a call (reply, empty reply or rejection)
\* issues no further call.
C10_OneCallPerSubmit ==
    /\ [](calls = accepted)
    /\ [][ event' \in {"resolve", "reject"} =>
              /\ calls' = calls
              /\ inflight' \subseteq inflight ]_vars

C10_Witness ==
    /\ accepted = 2
    /\ calls = 2
    /\ inflight = {}
    /\ \E i \in 1..Len(messages) : prov[i].kind = "reject"
    /\ \E i \in 1..Len(messages) : prov[i].kind = "empty"
    /\ isLoading = FALSE
    /\ event = "resolve"

\* C11: selecting a suggestion sets the pending input to the text of the
\* button clicked and changes nothing else of the component: transcript,
\* awaiting flag, calls and (once the mount effect has run) the handle.
C11_SuggestionOnlySetsInput ==
    [][ event' = "suggest" =>
            /\ chosen' \in Suggestions
            /\ input' = chosen'
            /\ UNCHANGED <<messages, isLoading, inflight, calls, accepted>>
            /\ ~effectPending => UNCHANGED <<chatInstance, handles>> ]_vars

C11_Witness ==
    /\ event = "suggest"
    /\ input = <<"s2">>
    /\ isLoading
    /\ inflight # {}

\* C12: a clear() that follows a clear() immediately leaves what the first
\* one left: empty transcript, a handle with empty history and the fixed
\* configuration, the same pending input, awaiting flag and pending calls.
C12_ClearIdempotent ==
    [][ clearStreak' = 2 =>
            /\ messages' = messages
            /\ messages' = <<>>
            /\ input' = input
            /\ isLoading' = isLoading
            /\ inflight' = inflight
            /\ calls' = calls
            /\ handles'[chatInstance'] = handles[chatInstance]
            /\ handles'[chatInstance'] = ChatsCreate ]_vars

C12_Witness ==
    /\ clearStreak = 2
    /\ event = "clear"
    /\ isLoading
    /\ input = <<" ", "a">>

\* C13: no two Messages of the transcript have the same id.
C13_UniqueIds ==
    \A i, j \in 1..Len(messages) : i # j => messages[i].id # messages[j].id

\* C14: every step other than clear() keeps the transcript it found as a
\* prefix of the transcript it leaves.
C14_AppendOnlyBetweenClears ==
    [][ event' # "clear" =>
            /\ Len(messages') >= Len(messages)
            /\ SubSeq(messages', 1, Len(messages)) = messages ]_vars

C14_Witness ==
    /\ event = "resolve"
    /\ Len(messages) = 4
    /\ messages[1].role = "user"
    /\ messages[3].role = "user"

\* C15: the awaiting flag is true exactly while a call is outstanding; it
\* turns true only in an accepted submit and false only in the completion of
\* a call, so clear(), typing and suggestion selection leave it alone.
C15_AwaitingFlagTransitions ==
    /\ [](isLoading <=> inflight # {})
    /\ [][ /\ (~isLoading /\ isLoading') =>
                (event' \in {"enter", "click"} /\ accepted' = accepted + 1)
           /\ (isLoading /\ ~isLoading') => event' \in {"resolve", "reject"}
           /\ event' \in {"clear", "type", "suggest"} => isLoading' = isLoading ]_vars

C15_Witness ==
    /\ event = "clear"
    /\ clearStreak = 1
    /\ isLoading
    /\ \E c \in inflight : c.handle # chatInstance
    /\ Trim(input) # <<>>

\* C16: a call is only ever issued on an initialized handle: the handle
\* exists when a submit is accepted, clear() leaves one, and every pending
\* call holds one.
C16_HandleInitializedOnSend ==
    /\ [](\A c \in inflight : c.handle \in Slots /\ handles[c.handle] # Free)
    /\ [][ /\ accepted' = accepted + 1 =>
                (~effectPending /\ chatInstance \in Slots /\ handles[chatInstance] # Free)
           /\ event' = "clear" =>
                (chatInstance' \in Slots /\ handles'[chatInstance'] # Free) ]_vars

C16_Witness ==
    /\ event = "enter"
    /\ accepted = 1
    /\ isLoading
    /\ \E c \in inflight : c.handle = chatInstance /\ handles[c.handle] = ChatsCreate

\* C17: the roles of the transcript alternate, starting with a user Message;
\* when idle the transcript has even length, while a reply is awaited it has
\* odd length and ends with the user Message of the turn in flight.
C17_RolesAlternate ==
    /\ \A i \in 1..Len(messages) :
          messages[i].role = IF i % 2 = 1 THEN "user" ELSE "model"
    /\ Len(messages) % 2 = IF isLoading THEN 1 ELSE 0

====
